---- MODULE Spec2Model ----
(***************************************************************************)
(* Model of scripts/wallace_tree.py: the Wallace-tree generator for a      *)
(* Booth-encoded multiplier (Signal, Compressor2to1/3to2/4to2 and          *)
(* WallaceTree with its layout, column accessors, column_add and           *)
(* tree_reduce).                                                           *)
(*                                                                         *)
(* Latencies are kept in half-units (1.0 is written 2) so that             *)
(* XOR_DELAY = 1.5 is the exact integer 3.  Python strings are sequences   *)
(* of one-character strings, Python lists are 0-based in the source and    *)
(* 1-based sequences here (columns and tree_map are functions on 0..n-1).  *)
(***************************************************************************)
EXTENDS Integers, Sequences, FiniteSets, TLC

VARIABLES
    width,          \* WallaceTree.width
    result_width,   \* WallaceTree.result_width
    pp_num,         \* WallaceTree.pp_num
    tree_map,       \* WallaceTree.tree_map  (the layout matrix)
    columns,        \* WallaceTree.columns, the columns argument of tree_reduce
    compressors,    \* WallaceTree.compressors (the registry)
    pc,             \* position of the running call
    level,          \* tree_reduce: the level argument
    i,              \* tree_reduce: the loop index over the columns
    carry_list,     \* tree_reduce: local carry_list
    sum_list,       \* tree_reduce: local sum_list
    call,           \* the call being made (operation and arguments)
    ret             \* what the last call returned or raised

vars == <<width, result_width, pp_num, tree_map, columns, compressors,
          pc, level, i, carry_list, sum_list, call, ret>>

----------------------------------------------------------------------------
(* Bounds of the model *)

MaxWidth == 8       \* multiplier widths 4..MaxWidth are constructed
MaxLen == 7         \* column_add is called on lists of 0..MaxLen signals
MaxLat == 5         \* compressor input latencies range over 0..MaxLat half-units
MaxArg == 1         \* column, level and no arguments of column_add: 0..MaxArg
Margin == 2         \* accessor indices range Margin+1 beyond both ends of the layout
MaxCols == 2        \* tree_reduce is also called on lists of 1..MaxCols columns
MaxName == 11       \* names are compared over columns, levels and numbers 0..MaxName

----------------------------------------------------------------------------
(* Gate delays, in half-units *)

BOOTH_DELAY == 8
AND_DELAY == 2
OR_DELAY == 2
XOR_DELAY == 3

----------------------------------------------------------------------------
(* Python helpers *)

None == <<>>

Max2(x, y) == IF x >= y THEN x ELSE y

Max3(x, y, z) == Max2(Max2(x, y), z)

DigitChar(d) == <<"0", "1", "2", "3", "4", "5", "6", "7", "8", "9">>[d + 1]

RECURSIVE NatStr(_)
NatStr(n) == IF n < 10 THEN <<DigitChar(n)>>
             ELSE NatStr(n \div 10) \o <<DigitChar(n % 10)>>

\* str(n) of a Python int
IntStr(n) == IF n < 0 THEN <<"-">> \o NatStr(-n) ELSE NatStr(n)

----------------------------------------------------------------------------
(* class Signal *)

Signal(name, depth, host) ==
    [name |-> name, latency |-> depth, host |-> host, loader |-> None]

\* the constant-zero signal given the latency of a partial-product bit
TIE_LOW_late == Signal(<<"1", "'", "b", "0">>, BOOTH_DELAY, None)

TIE_LOW == Signal(<<"1", "'", "b", "0">>, 0, None)

----------------------------------------------------------------------------
(* class Compressor and its three variants *)

\* f"u_{module_name}_{column}_{level}_{no}"
CompressorName(column, lvl, no, module_name) ==
    <<"u", "_">> \o module_name \o <<"_">> \o IntStr(column)
        \o <<"_">> \o IntStr(lvl) \o <<"_">> \o IntStr(no)

Name2to1 == <<"c", "m", "p", "r", "s", "_", "2", "t", "o", "1">>
Name3to2 == <<"c", "m", "p", "r", "s", "_", "3", "t", "o", "2">>
Name4to2 == <<"c", "m", "p", "r", "s", "_", "4", "t", "o", "2">>

Suffix_sum == <<"_", "s", "u", "m">>
Suffix_cout == <<"_", "c", "o", "u", "t">>
Suffix_cout_a == <<"_", "c", "o", "u", "t", "_", "a">>
Suffix_cout_b == <<"_", "c", "o", "u", "t", "_", "b">>

Compressor2to1(a, b, column, lvl, no) ==
    LET name == CompressorName(column, lvl, no, Name2to1)
        max_ab == Max2(a.latency, b.latency)
        sum_delay == max_ab + XOR_DELAY
        cout_delay == max_ab + AND_DELAY
    IN [module_name |-> Name2to1, column |-> column, level |-> lvl,
        name |-> name,
        input_dict |-> [a |-> a, b |-> b],
        sum |-> Signal(name \o Suffix_sum, sum_delay, name),
        cout |-> Signal(name \o Suffix_cout, cout_delay, name)]

\* a 3:2 compressor whose delays forget the input c
Compressor3to2_ignores_c(a, b, c, column, lvl, no) ==
    LET name == CompressorName(column, lvl, no, Name3to2)
        max_abc == Max2(a.latency, b.latency)
        sum_delay == max_abc + XOR_DELAY * 2
        cout_delay == max_abc + (AND_DELAY + OR_DELAY)
    IN [module_name |-> Name3to2, column |-> column, level |-> lvl,
        name |-> name,
        input_dict |-> [a |-> a, b |-> b, c |-> c],
        sum |-> Signal(name \o Suffix_sum, sum_delay, name),
        cout |-> Signal(name \o Suffix_cout, cout_delay, name)]

Compressor3to2(a, b, c, column, lvl, no) ==
    LET name == CompressorName(column, lvl, no, Name3to2)
        max_abc == Max3(a.latency, b.latency, c.latency)
        sum_delay == max_abc + XOR_DELAY * 2
        cout_delay == max_abc + (AND_DELAY + OR_DELAY)
    IN [module_name |-> Name3to2, column |-> column, level |-> lvl,
        name |-> name,
        input_dict |-> [a |-> a, b |-> b, c |-> c],
        sum |-> Signal(name \o Suffix_sum, sum_delay, name),
        cout |-> Signal(name \o Suffix_cout, cout_delay, name)]

\* a 4:2 compressor whose cin path to cout_a skips the AND stage
Compressor4to2_fast_cin(a, b, c, d, cin, column, lvl, no) ==
    LET name == CompressorName(column, lvl, no, Name4to2)
        max_abc == Max3(a.latency, b.latency, c.latency)
        max_all == Max3(max_abc, d.latency, cin.latency)
        abcd_xor == Max2(max_abc, d.latency) + XOR_DELAY * 2
        cin_and == cin.latency
        sum_delay == max_all + XOR_DELAY * 3
        cout_a_delay == Max2(abcd_xor, cin_and) + OR_DELAY
        cout_b_delay == max_abc + (AND_DELAY + OR_DELAY)
    IN [module_name |-> Name4to2, column |-> column, level |-> lvl,
        name |-> name,
        input_dict |-> [a |-> a, b |-> b, c |-> c, d |-> d, cin |-> cin],
        sum |-> Signal(name \o Suffix_sum, sum_delay, name),
        cout_a |-> Signal(name \o Suffix_cout_a, cout_a_delay, name),
        cout_b |-> Signal(name \o Suffix_cout_b, cout_b_delay, name)]

Compressor4to2(a, b, c, d, cin, column, lvl, no) ==
    LET name == CompressorName(column, lvl, no, Name4to2)
        max_abc == Max3(a.latency, b.latency, c.latency)
        max_all == Max3(max_abc, d.latency, cin.latency)
        abcd_xor == Max2(max_abc, d.latency) + XOR_DELAY * 2
        cin_and == cin.latency + AND_DELAY
        sum_delay == max_all + XOR_DELAY * 3
        cout_a_delay == Max2(abcd_xor, cin_and) + OR_DELAY
        cout_b_delay == max_abc + (AND_DELAY + OR_DELAY)
    IN [module_name |-> Name4to2, column |-> column, level |-> lvl,
        name |-> name,
        input_dict |-> [a |-> a, b |-> b, c |-> c, d |-> d, cin |-> cin],
        sum |-> Signal(name \o Suffix_sum, sum_delay, name),
        cout_a |-> Signal(name \o Suffix_cout_a, cout_a_delay, name),
        cout_b |-> Signal(name \o Suffix_cout_b, cout_b_delay, name)]

----------------------------------------------------------------------------
(* Python list indexing and call results *)

\* list[idx] is defined for -len <= idx < len, and raises IndexError otherwise
PyInRange(len, idx) == -len <= idx /\ idx < len

\* the 0-based position list[idx] denotes
PyIndex(len, idx) == IF idx < 0 THEN idx + len ELSE idx

Return(value) == [status |-> "ok", value |-> value, message |-> None]

Raise(kind, message) == [status |-> kind, value |-> None, message |-> message]

IndexErrorMessage == <<"list index out of range">>

----------------------------------------------------------------------------
(* class WallaceTree: layout and column construction *)

\* get_pp_width without the branch for the last row
get_pp_width_no_last_row(w, ppn, row) ==
    IF row < 0 \/ row >= ppn
    THEN Raise("ValueError",
               <<"Row number(">> \o IntStr(row) \o <<") out of range:[">>
                   \o IntStr(ppn - 1) \o <<":0].">>)
    ELSE IF row = 0 THEN Return(w + 4)
    ELSE Return(w + 5)

get_pp_width(w, ppn, row) ==
    IF row < 0 \/ row >= ppn
    THEN Raise("ValueError",
               <<"Row number(">> \o IntStr(row) \o <<") out of range:[">>
                   \o IntStr(ppn - 1) \o <<":0].">>)
    ELSE IF row = 0 THEN Return(w + 4)
    ELSE IF row = ppn - 1 THEN Return(w + 3)
    ELSE Return(w + 5)

get_wallace_map(w, rw, ppn) ==
    LET list_len == rw + 2
        start_pos(r) == IF r <= 1 THEN 0 ELSE r * 2 - 2
    IN [r \in 0..(ppn - 1) |->
          [j \in 0..(list_len - 1) |->
              IF j < start_pos(r) \/ j >= start_pos(r) + get_pp_width(w, ppn, r).value
              THEN 0 ELSE 1]]

\* f"pp_ext[{i}][{column}]"
PPName(r, column) ==
    <<"p", "p", "_", "e", "x", "t", "[">> \o IntStr(r) \o <<"]", "[">>
        \o IntStr(column) \o <<"]">>

RECURSIVE GenRows(_, _, _, _)
\* the loop of gen_column over the rows r..ppn-1, column already known indexable
GenRows(tm, ppn, column, r) ==
    IF r >= ppn THEN <<>>
    ELSE LET list_len == Cardinality(DOMAIN tm[r])
             rest == GenRows(tm, ppn, column, r + 1)
         IN IF tm[r][PyIndex(list_len, column)] = 1
            THEN <<Signal(PPName(r, column), BOOTH_DELAY, None)>> \o rest
            ELSE rest

\* gen_column whose loop over the rows starts at row 1
gen_column_skips_row_0(tm, ppn, column) ==
    IF ppn > 0 /\ ~PyInRange(Cardinality(DOMAIN tm[0]), column)
    THEN Raise("IndexError", IndexErrorMessage)
    ELSE Return(GenRows(tm, ppn, column, 1))

gen_column(tm, ppn, column) ==
    IF ppn > 0 /\ ~PyInRange(Cardinality(DOMAIN tm[0]), column)
    THEN Raise("IndexError", IndexErrorMessage)
    ELSE Return(GenRows(tm, ppn, column, 0))

get_column_num(cols, rw, column) ==
    IF column < 0 \/ column > rw
    THEN Raise("ValueError",
               <<"Column number(">> \o IntStr(column) \o <<") out of ">>
                   \o <<"range:[">> \o IntStr(rw - 1) \o <<":0].">>)
    ELSE LET len == Cardinality(DOMAIN cols)
         IN IF PyInRange(len, column)
            THEN Return(Len(cols[PyIndex(len, column)]))
            ELSE Raise("IndexError", IndexErrorMessage)

\* WallaceTree.__init__ without the test of logic_depth
WallaceTree_depth_unchecked(w, logic_depth) ==
    IF w < 4
    THEN Raise("ValueError", <<"Width of the Wallace Tree must be at least 4.">>)
    ELSE LET rw == 2 * w
             ppn == w \div 2 + 1
             tm == get_wallace_map(w, rw, ppn)
         IN Return([width |-> w, result_width |-> rw, pp_num |-> ppn,
                    tree_map |-> tm,
                    columns |-> [c \in 0..(rw - 1) |-> gen_column(tm, ppn, c).value],
                    compressors |-> <<>>])

\* WallaceTree.__init__: the constructed object, or the error raised
WallaceTree(w, logic_depth) ==
    IF w < 4
    THEN Raise("ValueError", <<"Width of the Wallace Tree must be at least 4.">>)
    ELSE IF logic_depth < 3
    THEN Raise("ValueError", <<"depth of the logic must be at least 3.">>)
    ELSE LET rw == 2 * w
             ppn == w \div 2 + 1
             tm == get_wallace_map(w, rw, ppn)
         IN Return([width |-> w, result_width |-> rw, pp_num |-> ppn,
                    tree_map |-> tm,
                    columns |-> [c \in 0..(rw - 1) |-> gen_column(tm, ppn, c).value],
                    compressors |-> <<>>])

DefaultLogicDepth == 20

----------------------------------------------------------------------------
(* WallaceTree.column_add *)

\* what a column_add call leaves behind: its result or exception, the list it
\* was given (mutated in place) and the registry
ColumnResult(status, carry, sum_o, col_list, registry) ==
    [status |-> status, carry |-> carry, sum |-> sum_o,
     col_list |-> col_list, compressors |-> registry]

RECURSIVE column_add(_, _, _, _, _)
column_add(col_list, column, lvl, no, registry) ==
    LET n == Len(col_list)
        cleared == <<>>
    IN
    IF ~(n > 0)
    THEN ColumnResult("AssertionError", <<>>, <<>>, col_list, registry)
    ELSE IF n = 1
    THEN \* col_list.clear() runs before col_list[0] is read
         IF PyInRange(Len(cleared), 0)
         THEN ColumnResult("ok", <<>>, <<cleared[PyIndex(Len(cleared), 0) + 1]>>,
                           cleared, registry)
         ELSE ColumnResult("IndexError", <<>>, <<>>, cleared, registry)
    ELSE IF n = 2
    THEN LET tmp == Compressor2to1(col_list[1], col_list[2], column, lvl, no)
         IN ColumnResult("ok", <<tmp.cout>>, <<tmp.sum>>, cleared,
                         Append(registry, tmp))
    ELSE IF n = 3
    THEN LET tmp == Compressor3to2(col_list[1], col_list[2], col_list[3],
                                   column, lvl, no)
         IN ColumnResult("ok", <<tmp.cout>>, <<tmp.sum>>, cleared,
                         Append(registry, tmp))
    ELSE IF n = 4
    THEN LET tmp == Compressor4to2(col_list[1], col_list[2], col_list[3],
                                   col_list[4], TIE_LOW, column, lvl, no)
         IN ColumnResult("ok", <<tmp.cout_a, tmp.cout_b>>, <<tmp.sum>>, cleared,
                         Append(registry, tmp))
    ELSE IF n = 5
    THEN LET tmp == Compressor4to2(col_list[1], col_list[2], col_list[3],
                                   col_list[4], col_list[5], column, lvl, no)
         IN ColumnResult("ok", <<tmp.cout_a, tmp.cout_b>>, <<tmp.sum>>, cleared,
                         Append(registry, tmp))
    ELSE LET tmp == Compressor4to2(col_list[n], col_list[n - 1], col_list[n - 2],
                                   col_list[n - 3], col_list[n - 4],
                                   column, lvl, no)
             popped == SubSeq(col_list, 1, n - 5)
             remain == column_add(popped, column, lvl, no + 1,
                                  Append(registry, tmp))
         IN IF remain.status # "ok"
            THEN remain     \* the exception propagates through this frame
            ELSE ColumnResult("ok",
                              <<tmp.cout_a, tmp.cout_b>> \o remain.carry,
                              <<tmp.sum>> \o remain.sum,
                              remain.col_list, remain.compressors)

----------------------------------------------------------------------------
(* The tree as an object: construction, accessors and tree_reduce *)

Pending == [status |-> "pending", value |-> None, message |-> None]

NoCall == [op |-> "none"]

\* the fields of a freshly constructed tree, the rest of the state idle
Constructed(w) ==
    LET t == WallaceTree(w, DefaultLogicDepth).value
    IN /\ width = t.width
       /\ result_width = t.result_width
       /\ pp_num = t.pp_num
       /\ tree_map = t.tree_map
       /\ columns = t.columns
       /\ compressors = t.compressors
       /\ level = 0
       /\ i = 0
       /\ carry_list = <<>>
       /\ sum_list = <<>>

Init ==
    /\ \E w \in 4..MaxWidth : Constructed(w)
    /\ pc = "idle"
    /\ call = NoCall
    /\ ret = Pending

Quiescent == pc \in {"idle", "done", "error"}

TreeFieldsUnchanged ==
    UNCHANGED <<width, result_width, pp_num, tree_map, columns, compressors>>

LocalsUnchanged == UNCHANGED <<level, i, carry_list, sum_list>>

\* tree.get_pp_width(row)
GetPpWidth ==
    /\ Quiescent
    /\ \E row \in (-(Margin + 1))..(pp_num + Margin) :
          /\ call' = [op |-> "get_pp_width", arg |-> row]
          /\ ret' = get_pp_width(width, pp_num, row)
    /\ UNCHANGED pc
    /\ TreeFieldsUnchanged
    /\ LocalsUnchanged

\* tree.get_column_num(column)
GetColumnNum ==
    /\ Quiescent
    /\ \E column \in (-(Margin + 1))..(result_width + Margin) :
          /\ call' = [op |-> "get_column_num", arg |-> column]
          /\ ret' = get_column_num(columns, result_width, column)
    /\ UNCHANGED pc
    /\ TreeFieldsUnchanged
    /\ LocalsUnchanged

\* tree.gen_column(column)
GenColumn ==
    /\ Quiescent
    /\ \E column \in (-(result_width + 2 + Margin))..(result_width + 2 + Margin) :
          /\ call' = [op |-> "gen_column", arg |-> column]
          /\ ret' = gen_column(tree_map, pp_num, column)
    /\ UNCHANGED pc
    /\ TreeFieldsUnchanged
    /\ LocalsUnchanged

RECURSIVE MaxLen_(_, _)
\* max(map(lambda x: len(x), columns)) over the columns c..n-1
MaxLen_(cols, c) ==
    IF c + 1 >= Cardinality(DOMAIN cols) THEN Len(cols[c])
    ELSE Max2(Len(cols[c]), MaxLen_(cols, c + 1))

\* tree.tree_reduce(tree.columns, lvl): the test at the head of the routine
TreeReduceCall ==
    /\ Quiescent
    /\ \E lvl \in 0..MaxArg :
          /\ call' = [op |-> "tree_reduce", arg |-> lvl]
          /\ level' = lvl
    /\ IF MaxLen_(columns, 0) <= 2
       THEN /\ pc' = "done"
            /\ ret' = Return(None)
            /\ UNCHANGED <<i, carry_list, sum_list>>
       ELSE /\ pc' = "loop"
            /\ ret' = Pending
            /\ i' = 0
            /\ carry_list' = <<>>
            /\ sum_list' = <<>>
    /\ TreeFieldsUnchanged

\* the loop of tree_reduce naming every compressor after column 0
TreeReduceColumn_column_0 ==
    /\ pc = "loop"
    /\ LET r == column_add(columns[i], 0, level, 0, compressors)
       IN /\ columns' = [columns EXCEPT ![i] = r.col_list]
          /\ compressors' = r.compressors
          /\ IF r.status = "ok"
             THEN /\ carry_list' = Append(carry_list, r.carry)
                  /\ sum_list' = Append(sum_list, r.sum)
                  /\ i' = i + 1
                  /\ pc' = IF i + 1 < Cardinality(DOMAIN columns)
                           THEN "loop" ELSE "recurse"
                  /\ UNCHANGED ret
             ELSE /\ pc' = "error"
                  /\ ret' = Raise(r.status, None)
                  /\ UNCHANGED <<i, carry_list, sum_list>>
    /\ UNCHANGED <<width, result_width, pp_num, tree_map, level, call>>

\* one iteration of the loop of tree_reduce: column_add on column i
TreeReduceColumn ==
    /\ pc = "loop"
    /\ LET r == column_add(columns[i], i, level, 0, compressors)
       IN /\ columns' = [columns EXCEPT ![i] = r.col_list]
          /\ compressors' = r.compressors
          /\ IF r.status = "ok"
             THEN /\ carry_list' = Append(carry_list, r.carry)
                  /\ sum_list' = Append(sum_list, r.sum)
                  /\ i' = i + 1
                  /\ pc' = IF i + 1 < Cardinality(DOMAIN columns)
                           THEN "loop" ELSE "recurse"
                  /\ UNCHANGED ret
             ELSE /\ pc' = "error"
                  /\ ret' = Raise(r.status, None)
                  /\ UNCHANGED <<i, carry_list, sum_list>>
    /\ UNCHANGED <<width, result_width, pp_num, tree_map, level, call>>

\* the call self.tree_reduce() that ends the loop: both arguments are missing
TreeReduceRecurse ==
    /\ pc = "recurse"
    /\ pc' = "error"
    /\ ret' = Raise("TypeError",
                    <<"tree_reduce() missing 2 required positional arguments">>)
    /\ UNCHANGED call
    /\ TreeFieldsUnchanged
    /\ LocalsUnchanged

Next ==
    \/ GetPpWidth
    \/ GetColumnNum
    \/ GenColumn
    \/ TreeReduceCall
    \/ TreeReduceColumn
    \/ TreeReduceRecurse

Spec == Init /\ [][Next]_vars

----------------------------------------------------------------------------
(* column_add called on a list of its own *)

ColLatencies == {BOOTH_DELAY, BOOTH_DELAY + AND_DELAY}

\* a list of n distinct primary signals with the given latencies
SignalList(n, lat, column) ==
    [k \in 1..n |-> Signal(PPName(k - 1, column), lat[k], None)]

InitColumn ==
    /\ Constructed(4)
    /\ pc = "call"
    /\ \E n \in 0..MaxLen, column \in 0..MaxArg, lvl \in 0..MaxArg, no \in 0..MaxArg :
          \E lat \in [1..n -> ColLatencies] :
             call = [op |-> "column_add", col_list |-> SignalList(n, lat, column),
                     column |-> column, level |-> lvl, no |-> no]
    /\ ret = Pending

\* tree.column_add(col_list, column, level, no), recursion included
ColumnAdd ==
    /\ pc = "call"
    /\ LET r == column_add(call.col_list, call.column, call.level, call.no,
                           compressors)
       IN /\ ret' = r
          /\ compressors' = r.compressors
          /\ pc' = IF r.status = "ok" THEN "done" ELSE "error"
    /\ UNCHANGED <<width, result_width, pp_num, tree_map, columns, call>>
    /\ LocalsUnchanged

NextColumn == ColumnAdd

SpecColumn == InitColumn /\ [][NextColumn]_vars

----------------------------------------------------------------------------
(* The compressor constructors on arbitrary input latencies *)

InputName(role) == <<"i", "n", "_">> \o role

InitDelay ==
    /\ Constructed(4)
    /\ pc = "new"
    /\ \E la \in 0..MaxLat, lb \in 0..MaxLat, lc \in 0..MaxLat,
          ld \in 0..MaxLat, lcin \in 0..MaxLat :
          call = [op |-> "Compressor",
                  a |-> Signal(InputName(<<"a">>), la, None),
                  b |-> Signal(InputName(<<"b">>), lb, None),
                  c |-> Signal(InputName(<<"c">>), lc, None),
                  d |-> Signal(InputName(<<"d">>), ld, None),
                  cin |-> Signal(InputName(<<"c", "i", "n">>), lcin, None)]
    /\ ret = Pending

\* Compressor2to1(a, b, 0, 0, 0)
New2to1 ==
    /\ pc = "new"
    /\ pc' = "built"
    /\ ret' = Compressor2to1(call.a, call.b, 0, 0, 0)
    /\ UNCHANGED call
    /\ TreeFieldsUnchanged
    /\ LocalsUnchanged

\* Compressor3to2(a, b, c, 0, 0, 0)
New3to2 ==
    /\ pc = "new"
    /\ pc' = "built"
    /\ ret' = Compressor3to2(call.a, call.b, call.c, 0, 0, 0)
    /\ UNCHANGED call
    /\ TreeFieldsUnchanged
    /\ LocalsUnchanged

\* Compressor4to2(a, b, c, d, cin, 0, 0, 0)
New4to2 ==
    /\ pc = "new"
    /\ pc' = "built"
    /\ ret' = Compressor4to2(call.a, call.b, call.c, call.d, call.cin, 0, 0, 0)
    /\ UNCHANGED call
    /\ TreeFieldsUnchanged
    /\ LocalsUnchanged

NextDelay ==
    \/ New2to1
    \/ New3to2
    \/ New4to2

SpecDelay == InitDelay /\ [][NextDelay]_vars

----------------------------------------------------------------------------
(* tree_reduce called on a list of columns of the caller's choice *)

\* nc columns of primary signals, column c holding lens[c] of them
ColumnLists(nc, lens) ==
    [c \in 0..(nc - 1) |->
        SignalList(lens[c], [k \in 1..lens[c] |-> BOOTH_DELAY], c)]

InitReduce ==
    /\ LET t == WallaceTree(4, DefaultLogicDepth).value
       IN /\ width = t.width
          /\ result_width = t.result_width
          /\ pp_num = t.pp_num
          /\ tree_map = t.tree_map
          /\ compressors = t.compressors
    /\ \E nc \in 1..MaxCols :
          \E lens \in [0..(nc - 1) -> 0..MaxLen] :
             columns = ColumnLists(nc, lens)
    /\ level = 0
    /\ i = 0
    /\ carry_list = <<>>
    /\ sum_list = <<>>
    /\ pc = "idle"
    /\ call = NoCall
    /\ ret = Pending

NextReduce ==
    \/ TreeReduceCall
    \/ TreeReduceColumn
    \/ TreeReduceRecurse

SpecReduce == InitReduce /\ [][NextReduce]_vars

----------------------------------------------------------------------------
(* The constructor on arbitrary arguments *)

\* the logic_depth arguments tried: around the limit 3, and the default
LogicDepths == (0..(3 + Margin)) \cup {DefaultLogicDepth}

\* before WallaceTree(width, logic_depth=...) runs no attribute exists
InitNew ==
    /\ width = None
    /\ result_width = None
    /\ pp_num = None
    /\ tree_map = None
    /\ columns = None
    /\ compressors = None
    /\ level = 0
    /\ i = 0
    /\ carry_list = <<>>
    /\ sum_list = <<>>
    /\ pc = "new"
    /\ \E w \in 0..MaxWidth, logic_depth \in LogicDepths :
          call = [op |-> "WallaceTree", width |-> w, logic_depth |-> logic_depth]
    /\ ret = Pending

\* WallaceTree(width, logic_depth=...)
NewTree ==
    /\ pc = "new"
    /\ LET r == WallaceTree(call.width, call.logic_depth)
       IN IF r.status = "ok"
          THEN /\ width' = r.value.width
               /\ result_width' = r.value.result_width
               /\ pp_num' = r.value.pp_num
               /\ tree_map' = r.value.tree_map
               /\ columns' = r.value.columns
               /\ compressors' = r.value.compressors
               /\ pc' = "idle"
               /\ ret' = Return(None)
          ELSE /\ TreeFieldsUnchanged
               /\ pc' = "error"
               /\ ret' = r
    /\ UNCHANGED call
    /\ LocalsUnchanged

NextNew == NewTree

SpecNew == InitNew /\ [][NextNew]_vars

----------------------------------------------------------------------------
(* Vocabulary of the properties *)

\* the list column_add was called on
Given == call.col_list

GivenLen == Len(call.col_list)

ColumnAddReturned == call.op = "column_add" /\ pc \in {"done", "error"}

\* how often x occurs in the sequence seq
Occurrences(seq, x) == Cardinality({k \in 1..Len(seq) : seq[k] = x})

\* how often the signal s is wired to an input of a compressor of the registry
TimesConsumed(s) ==
    Cardinality({kr \in (1..Len(compressors)) \X {"a", "b", "c", "d", "cin"} :
                    /\ kr[2] \in DOMAIN compressors[kr[1]].input_dict
                    /\ compressors[kr[1]].input_dict[kr[2]] = s})

\* the output signals of a compressor
OutputsOf(cmp) ==
    IF cmp.module_name = Name4to2 THEN {cmp.sum, cmp.cout_a, cmp.cout_b}
    ELSE {cmp.sum, cmp.cout}

CeilDiv(n, k) == (n + k - 1) \div k

\* the largest latency over all inputs of a compressor
MaxInputLatency(cmp) ==
    CHOOSE m \in {cmp.input_dict[r].latency : r \in DOMAIN cmp.input_dict} :
        \A r \in DOMAIN cmp.input_dict : cmp.input_dict[r].latency <= m

\* the message msg contains the text sub
Contains(msg, sub) ==
    \E k \in 0..(Len(msg) - Len(sub)) : SubSeq(msg, k + 1, k + Len(sub)) = sub

\* the layout of the claim: first column and width of row r
RowStart(r) == IF r \in {0, 1} THEN 0 ELSE 2 * r - 2

RowWidth(r) ==
    IF r = 0 THEN width + 4
    ELSE IF r = pp_num - 1 THEN width + 3
    ELSE width + 5

RowSum(r) == Cardinality({j \in DOMAIN tree_map[r] : tree_map[r][j] = 1})

\* the 1-entries of the layout in the columns lo..hi
OnesIn(lo, hi) ==
    Cardinality({rj \in (DOMAIN tree_map) \X (lo..hi) : tree_map[rj[1]][rj[2]] = 1})

RECURSIVE SignalsFrom(_)
\* the number of live signals in the columns c..result_width-1
SignalsFrom(c) ==
    IF c >= result_width THEN 0 ELSE Len(columns[c]) + SignalsFrom(c + 1)

----------------------------------------------------------------------------
(* Properties of column_add *)

\* C1: column_add on a list holding exactly one signal s returns normally
\* with carries = [] and sums = [s], and leaves the registry unchanged.
C1_SinglePassThrough ==
    (ColumnAddReturned /\ GivenLen = 1) =>
        /\ ret.status = "ok"
        /\ ret.carry = <<>>
        /\ ret.sum = <<Given[1]>>
        /\ compressors = <<>>

\* C2: for every n >= 1 column_add returns normally, every input signal is an
\* input of exactly one created compressor or returned exactly once as a
\* pass-through sum, every output of a created compressor is returned exactly
\* once, and there are ceil(n/5) sums; for n = 6 that is 2 sums and 2 carries.
C2_NothingLostOrDuplicated ==
    (ColumnAddReturned /\ GivenLen >= 1) =>
        /\ ret.status = "ok"
        /\ \A k \in 1..GivenLen :
              TimesConsumed(Given[k]) + Occurrences(ret.sum, Given[k]) = 1
        /\ \A k \in 1..Len(compressors) :
              \A o \in OutputsOf(compressors[k]) :
                 Occurrences(ret.sum \o ret.carry, o) = 1
        /\ Len(ret.sum) = CeilDiv(GivenLen, 5)
        /\ (GivenLen = 6 => Len(ret.sum) = 2 /\ Len(ret.carry) = 2)

\* C5: for n in 2..5 column_add creates exactly one compressor, appended once
\* to the registry: a 2:1 for n = 2 and a 3:2 for n = 3 returning
\* ([carry], [sum]); a 4:2 for n = 4 (cin the constant zero: latency 0, no
\* producer) and for n = 5 (cin the fifth signal) returning
\* ([carry_a, carry_b], [sum]); a, b, c, d are the list elements in order.
C5_OneCompressorUpToFive ==
    (ColumnAddReturned /\ GivenLen \in 2..5) =>
        /\ ret.status = "ok"
        /\ Len(compressors) = 1
        /\ LET cmp == compressors[1]
               ins == cmp.input_dict
           IN /\ cmp.module_name = CASE GivenLen = 2 -> Name2to1
                                     [] GivenLen = 3 -> Name3to2
                                     [] OTHER -> Name4to2
              /\ DOMAIN ins = CASE GivenLen = 2 -> {"a", "b"}
                                [] GivenLen = 3 -> {"a", "b", "c"}
                                [] OTHER -> {"a", "b", "c", "d", "cin"}
              /\ ins.a = Given[1]
              /\ ins.b = Given[2]
              /\ GivenLen >= 3 => ins.c = Given[3]
              /\ GivenLen >= 4 => ins.d = Given[4]
              /\ GivenLen = 4 => ins.cin.latency = 0 /\ ins.cin.host = None
                                    /\ ins.cin \notin {Given[k] : k \in 1..4}
              /\ GivenLen = 5 => ins.cin = Given[5]
              /\ GivenLen \in {2, 3} =>
                    ret.carry = <<cmp.cout>> /\ ret.sum = <<cmp.sum>>
              /\ GivenLen \in {4, 5} =>
                    ret.carry = <<cmp.cout_a, cmp.cout_b>> /\ ret.sum = <<cmp.sum>>

\* a call on four signals has returned with its 4:2 compressor registered
C5_Witness ==
    /\ ColumnAddReturned
    /\ GivenLen = 4
    /\ Len(compressors) = 1
    /\ compressors[1].module_name = Name4to2
    /\ compressors[1].input_dict.d = Given[4]
    /\ Len(ret.carry) = 2

----------------------------------------------------------------------------
(* Properties of tree_reduce *)

TreeReduceEnded == call.op = "tree_reduce" /\ pc \in {"done", "error"}

\* the loop of tree_reduce has passed over every column of the level
LevelProcessed == call.op = "tree_reduce" /\ pc = "recurse"

\* C3: tree_reduce started at level 0 on the columns of a tree of width >= 4
\* ends without error, in a state where every column holds at most 2 signals.
C3_ReductionTerminates ==
    (TreeReduceEnded /\ call.arg = 0) =>
        /\ pc = "done"
        /\ ret.status = "ok"
        /\ \A c \in 0..(result_width - 1) : Len(columns[c]) <= 2

\* C4: after one level, columns[c] consists of the sums returned by reducing
\* column c together with the carries returned by reducing column c-1.
C4_CarriesMoveUp ==
    LevelProcessed =>
        \A c \in 0..(result_width - 1) :
           LET expected == sum_list[c + 1]
                              \o (IF c = 0 THEN <<>> ELSE carry_list[c])
           IN /\ Len(columns[c]) = Len(expected)
              /\ \A s \in {expected[k] : k \in 1..Len(expected)} :
                    Occurrences(columns[c], s) = Occurrences(expected, s)

----------------------------------------------------------------------------
(* Properties of the layout and of the columns *)

\* C6: pp_num = w/2 + 1, result_width = 2w, every row has result_width + 2
\* entries, entry (r, j) is 1 exactly for start(r) <= j < start(r) + pp_width(r),
\* and each row sums to pp_width(r): 12,13,13,13,11 for width 8 and 8,9,7 for
\* width 4.
C6_LayoutFormula ==
    /\ pp_num = width \div 2 + 1
    /\ result_width = 2 * width
    /\ DOMAIN tree_map = 0..(pp_num - 1)
    /\ \A r \in 0..(pp_num - 1) :
          /\ DOMAIN tree_map[r] = 0..(result_width + 1)
          /\ \A j \in 0..(result_width + 1) :
                (tree_map[r][j] = 1) <=>
                    (RowStart(r) <= j /\ j < RowStart(r) + RowWidth(r))
          /\ \A j \in 0..(result_width + 1) : tree_map[r][j] \in {0, 1}
          /\ RowSum(r) = RowWidth(r)
    /\ width = 8 => [r \in 0..4 |-> RowSum(r)] = [r \in 0..4 |->
                                    <<12, 13, 13, 13, 11>>[r + 1]]
    /\ width = 4 => [r \in 0..2 |-> RowSum(r)] = [r \in 0..2 |->
                                    <<8, 9, 7>>[r + 1]]

\* a tree of width 8 with its five rows, the middle ones 13 wide
C6_Witness ==
    /\ width = 8
    /\ pp_num = 5
    /\ RowSum(2) = 13
    /\ tree_map[4][RowStart(4)] = 1

FreshTree == pc = "idle"

\* C7 as stated: right after construction the 1-entries of the whole layout
\* matrix are as many as the primary signals held in all columns.
C7_AllOnesAreSignals ==
    FreshTree => OnesIn(0, result_width + 1) = SignalsFrom(0)

\* C7 as amended: right after construction the 1-entries of the layout in the
\* columns 0..result_width-1 are as many as the primary signals held in all
\* columns; the whole matrix has 2 more when the width is even (its two
\* 1-entries in column result_width, for which no column is built) and none
\* more when the width is odd.
C7_OnesBelowResultWidthAreSignals ==
    FreshTree =>
        /\ OnesIn(0, result_width - 1) = SignalsFrom(0)
        /\ DOMAIN columns = 0..(result_width - 1)
        /\ OnesIn(0, result_width + 1) =
              SignalsFrom(0) + (IF width % 2 = 0 THEN 2 ELSE 0)

\* a fresh tree of width 4: 24 ones in the layout, 22 signals in the columns
C7_Witness ==
    /\ FreshTree
    /\ width = 4
    /\ OnesIn(0, result_width + 1) = 24
    /\ SignalsFrom(0) = 22

AccessorReturned == call.op \in {"get_pp_width", "get_column_num", "gen_column"}

OutOfRange ==
    IF call.op = "get_pp_width" THEN call.arg < 0 \/ call.arg >= pp_num
    ELSE call.arg < 0 \/ call.arg >= result_width

\* C10: get_pp_width, get_column_num and gen_column reject every out-of-range
\* index with a range error that reports the index, and return no value.
C10_OutOfRangeRejected ==
    (AccessorReturned /\ OutOfRange) =>
        /\ ret.status = "ValueError"
        /\ Contains(ret.message, IntStr(call.arg))

----------------------------------------------------------------------------
(* Properties of the delay model (1.0 is 2 half-units) *)

CompressorBuilt == call.op = "Compressor" /\ pc = "built"

La == call.a.latency
Lb == call.b.latency
Lc == call.c.latency
Ld == call.d.latency
Lcin == call.cin.latency

\* C8: 2:1 sum = max(a,b)+1.5, carry = max(a,b)+1.0; 3:2 sum = max(a,b,c)+3.0,
\* carry = max(a,b,c)+2.0; 4:2 sum = max(a,b,c,d,cin)+4.5,
\* carry_a = max(max(a,b,c,d)+3.0, cin+1.0)+1.0, carry_b = max(a,b,c)+2.0;
\* two inputs of latency L give a 2:1 sum of L+1.5 and a carry of L+1.0.
C8_DelayModel ==
    CompressorBuilt =>
        /\ ret.module_name = Name2to1 =>
              /\ ret.sum.latency = Max2(La, Lb) + 3
              /\ ret.cout.latency = Max2(La, Lb) + 2
              /\ La = Lb => ret.sum.latency = La + 3 /\ ret.cout.latency = La + 2
        /\ ret.module_name = Name3to2 =>
              /\ ret.sum.latency = Max3(La, Lb, Lc) + 6
              /\ ret.cout.latency = Max3(La, Lb, Lc) + 4
        /\ ret.module_name = Name4to2 =>
              /\ ret.sum.latency = Max2(Max2(Max3(La, Lb, Lc), Ld), Lcin) + 9
              /\ ret.cout_a.latency =
                    Max2(Max2(Max3(La, Lb, Lc), Ld) + 6, Lcin + 2) + 2
              /\ ret.cout_b.latency = Max3(La, Lb, Lc) + 4

\* a 4:2 compressor whose carry_a is decided by a late cin
C8_Witness ==
    /\ CompressorBuilt
    /\ ret.module_name = Name4to2
    /\ Lcin + 2 > Max2(Max3(La, Lb, Lc), Ld) + 6
    /\ ret.cout_a.latency = Lcin + 4

\* C9 as stated: every output of every compressor is later than the latest of
\* all of that compressor's inputs by at least 1.0.
C9_EveryOutputAfterEveryInput ==
    CompressorBuilt =>
        \A o \in OutputsOf(ret) : o.latency >= MaxInputLatency(ret) + 2

\* C9 as amended: every output of every compressor is later than the latest of
\* all of that compressor's inputs by at least 1.0, except carry_b of a 4:2,
\* which is later by 2.0 than the latest of a, b and c only.
C9_OutputAfterItsInputs ==
    CompressorBuilt =>
        /\ \A o \in OutputsOf(ret) :
              (ret.module_name = Name4to2 /\ o = ret.cout_b)
                 \/ o.latency >= MaxInputLatency(ret) + 2
        /\ ret.module_name = Name4to2 =>
              ret.cout_b.latency >= Max3(La, Lb, Lc) + 4

\* a 4:2 compressor whose carry_b is ready before its input d has arrived
C9_Witness ==
    /\ CompressorBuilt
    /\ ret.module_name = Name4to2
    /\ ret.cout_b.latency < Ld
    /\ ret.cout_a.latency >= MaxInputLatency(ret) + 2

----------------------------------------------------------------------------
(* Properties of the compressor names *)

NameTuples ==
    {Name2to1, Name3to2, Name4to2} \X (0..MaxName) \X (0..MaxName) \X (0..MaxName)

RECURSIVE Fields(_)
\* the pieces of a text between its underscores
Fields(str) ==
    IF str = <<>> THEN << <<>> >>
    ELSE LET rest == Fields(Tail(str))
         IN IF Head(str) = "_" THEN << <<>> >> \o rest
            ELSE << <<Head(str)>> \o rest[1] >> \o Tail(rest)

IsNat(str) ==
    /\ Len(str) > 0
    /\ \A k \in 1..Len(str) : \E d \in 0..9 : DigitChar(d) = str[k]

RECURSIVE NatVal(_)
\* the number a text of digits denotes
NatVal(str) ==
    IF Len(str) = 0 THEN 0
    ELSE NatVal(SubSeq(str, 1, Len(str) - 1)) * 10
            + (CHOOSE d \in 0..9 : DigitChar(d) = str[Len(str)])

\* the (kind, column, level, sequence) tuple read back from a name, or <<>>
ParseName(name) ==
    LET f == Fields(name)
    IN IF Len(f) = 6 /\ f[1] = <<"u">> /\ IsNat(f[4]) /\ IsNat(f[5]) /\ IsNat(f[6])
       THEN <<f[2] \o <<"_">> \o f[3], NatVal(f[4]), NatVal(f[5]), NatVal(f[6])>>
       ELSE <<>>

\* every tuple can be read back from its name: the name is injective
NameInjective ==
    \A t \in NameTuples : ParseName(CompressorName(t[2], t[3], t[4], t[1])) = t

\* the sequence number the k-th compressor of the registry must carry: the
\* number of compressors registered before it for the same column and level
SeqNo(k) ==
    Cardinality({j \in 1..(k - 1) :
                    /\ compressors[j].column = compressors[k].column
                    /\ compressors[j].level = compressors[k].level})

TupleOf(k) ==
    <<compressors[k].module_name, compressors[k].column, compressors[k].level,
      SeqNo(k)>>

\* C11: no two compressors of the registry have the same name: the name is an
\* injective function of (kind, column, level, sequence), no such tuple is
\* used twice while a tree is reduced, and the compressors that one column_add
\* call creates are numbered no, no+1, no+2, ... (tree_reduce passes no = 0).
C11_NamesUnique ==
    /\ NameInjective
    /\ \A k \in 1..Len(compressors) : ParseName(compressors[k].name) = TupleOf(k)
    /\ \A j, k \in 1..Len(compressors) :
          (compressors[j].name = compressors[k].name \/ TupleOf(j) = TupleOf(k))
             => j = k
    /\ \A k \in 1..Len(compressors) :
          /\ compressors[k].sum.host = compressors[k].name
          /\ k > 1 /\ compressors[k - 1].column = compressors[k].column =>
                /\ compressors[k - 1].module_name = Name4to2
                /\ SeqNo(k) = SeqNo(k - 1) + 1

\* two columns have been reduced, one of them by two successive compressors
C11_Witness ==
    /\ call.op = "tree_reduce"
    /\ \E j, k \in 1..Len(compressors) :
          /\ compressors[j].column = compressors[k].column
          /\ SeqNo(j) = 0
          /\ SeqNo(k) = 1
    /\ \E j, k \in 1..Len(compressors) :
          compressors[j].column # compressors[k].column

----------------------------------------------------------------------------
(* Properties of the constructor *)

ConstructorEnded == call.op = "WallaceTree" /\ pc \in {"idle", "error"}

NothingBuilt ==
    /\ width = None
    /\ result_width = None
    /\ pp_num = None
    /\ tree_map = None
    /\ columns = None
    /\ compressors = None

\* C12: constructing a WallaceTree fails with a configuration error, before
\* any layout, column or registry state is built, exactly when width < 4 or
\* logic_depth < 3; for every width >= 4 and logic_depth >= 3 it succeeds.
C12_ConfigurationChecked ==
    ConstructorEnded =>
        IF call.width < 4 \/ call.logic_depth < 3
        THEN /\ pc = "error"
             /\ ret.status = "ValueError"
             /\ NothingBuilt
        ELSE /\ pc = "idle"
             /\ ret.status = "ok"
             /\ width = call.width
             /\ DOMAIN tree_map = 0..(call.width \div 2)
             /\ DOMAIN columns = 0..(2 * call.width - 1)
             /\ compressors = <<>>

\* a width that would do was rejected for its logic_depth of 2
C12_Witness ==
    /\ ConstructorEnded
    /\ call.width >= 4
    /\ call.logic_depth = 2
    /\ ret.status = "ValueError"
    /\ NothingBuilt

----------------------------------------------------------------------------
(* Which columns a level reduces *)

\* C13: within one level a compressor is created only for a column holding
\* more than 2 live signals, such a column is reduced (once, as the loop
\* passes it); a column holding 1 or 2 signals gets no compressor and keeps
\* its live list unchanged.
C13_OnlyCrowdedColumnsReduced ==
    [][pc = "loop" =>
          IF Len(columns[i]) > 2
          THEN pc' # "error" =>
                  Len(compressors') > Len(compressors) /\ i' = i + 1
          ELSE compressors' = compressors /\ columns'[i] = columns[i]]_vars

====
